---- MODULE Spec2Model ----
(***************************************************************************)
(* Market scanner (trentcrawley/test_app, backend): the run registry       *)
(* `running_scans`, the scan run `run_market_scanner_manual` with the      *)
(* scanner `market_scanner_fast` it awaits, the cancel endpoint, and the   *)
(* result store `DatabaseService.save_scan_results`.                       *)
(*                                                                         *)
(* The process is one asyncio event loop: code between two `await`s runs   *)
(* without interleaving, so every action below is the code from one await  *)
(* of a coroutine to its next await (or to its return).                    *)
(*                                                                         *)
(* Spec is the run machine.  SpecFetch is one call of                      *)
(* process_stock_batch_concurrent with the filter that follows it, and     *)
(* SpecFilter and SpecSqueeze apply the in-memory filter and the count of  *)
(* squeeze days to inputs drawn from bounded sets.  SpecStacking,         *)
(* SpecAnalysis and SpecSpike do the same for the EMA stacking check, the  *)
(* squeeze analysis of one symbol and the two volume-spike calculations,   *)
(* and SpecScheduler is the loop of scheduler.py against a wall clock.     *)
(* SpecBatchAnalysis is analyze_ttm_squeeze_concurrent over a batch with   *)
(* failing symbols, SpecBatching the slicing of the codes into fetch       *)
(* calls, and SpecBollinger the rolling mean and deviation of the bands.   *)
(***************************************************************************)
EXTENDS Integers, Sequences, FiniteSets, TLC

\* ------------------------------------------------------------------ bounds
\* Number of start-scan requests (accepted or rejected) in one behaviour.
MaxRuns == 2

\* ------------------------------------------------------------- the domain
\* country.upper() in ["US", "AU"]
Markets == {"US", "AU"}

\* Codes of the symbol universe (the same small universe for both markets).
\* A symbol can be a squeeze result, a spike result, both or neither.
Symbols == {"s1"}

\* The statements of the result store that its `except` handlers guard and
\* that may raise: the delete of clear_old_results and the final commit of
\* save_scan_results.
DbFaultSets == SUBSET {"delete", "commit"}

\* What the in-memory filter of market_scanner_fast can produce from fetched
\* data: the squeeze candidates and, among them only, the spike candidates.
FilterOutcomes == {fo \in [ttm : SUBSET Symbols, spikes : SUBSET Symbols] :
                       fo.spikes \subseteq fo.ttm}

VARIABLES
    running_scans,  \* main.py:43, the set of markets with a scan in progress
    runs,           \* the calls of run_market_scanner_manual in progress
    started,        \* number of calls of run_market_scanner_manual so far
    response,       \* what the step just taken answered to its caller, if a
                    \* call returned in it: the answer and the call's locals
    rows,           \* table scan_results: how many rows there are per
                    \* (country, scan_type, symbol)
    sessions,       \* table scan_sessions, in insertion order (id = index)
    batch,          \* the call of process_stock_batch_concurrent under study:
                    \* its arguments, its semaphore, its tasks and what the
                    \* filter made of its results
    calc,           \* the calculation under study: its input and its output
    scheduler       \* scheduler.py:110, the scheduler: self.running, where
                    \* its loop schedule_scanners is, and the wall clock

vars ==
    <<running_scans, runs, started, response, rows, sessions, batch, calc,
      scheduler>>

\* No batch call and no calculation is under study.
NoBatch == [pc |-> "none"]

NoCalc == [fn |-> "none"]

\* The scheduler loop is not under study.
NoScheduler == [pc |-> "none"]

ScanTypes == {"ttm_squeeze", "volume_spike"}

\* (country, scan_type, symbol) of a ScanResult row
RowKeys == Markets \X ScanTypes \X Symbols

EmptyResults == [ttm_squeeze |-> {}, volume_spikes |-> {}]

\* Number of rows stored for a country.
RowCount(rs, country) ==
    LET keys == {k \in RowKeys : k[1] = country}
        Sum[K \in SUBSET keys] ==
            IF K = {} THEN 0
            ELSE LET k == CHOOSE x \in K : TRUE IN rs[k] + Sum[K \ {k}]
    IN  Sum[keys]

\* --------------------------------------------------------- the result store

\* clear_old_results(country): deletes every row of the country; an exception
\* of the delete is logged and swallowed, and the table is left as it was.
ClearEveryCountry(rs, country, fails) ==
    IF fails THEN rs ELSE [k \in RowKeys |-> 0]

clear_old_results(rs, country, fails) ==
    IF fails THEN rs
    ELSE [k \in RowKeys |-> IF k[1] = country THEN 0 ELSE rs[k]]

\* total_results of save_scan_results: one per inserted row.
TotalResultsSqueezeOnly(results) == Cardinality(results.ttm_squeeze)

TotalResults(results) ==
    Cardinality(results.ttm_squeeze) + Cardinality(results.volume_spikes)

\* The ScanResult rows save_scan_results adds for `results`: one per squeeze
\* result and one per spike result.
NewRows(country, results) ==
    [k \in RowKeys |->
        IF /\ k[1] = country
           /\ \/ k[2] = "ttm_squeeze" /\ k[3] \in results.ttm_squeeze
              \/ k[2] = "volume_spike" /\ k[3] \in results.volume_spikes
        THEN 1 ELSE 0]

\* save_scan_results(country, results, scan_type): no await inside, so it is
\* one step.  Gives the two tables after the call.
SaveReopeningSessions(country, results, scan_type, faults) ==
    [rows     |-> clear_old_results(rows, country, "delete" \in faults),
     sessions |-> Append([i \in DOMAIN sessions |->
                             IF sessions[i].country = country
                             THEN [sessions[i] EXCEPT !.status = "running"]
                             ELSE sessions[i]],
                         [country |-> country, scan_type |-> scan_type,
                          status |-> "completed",
                          results_count |-> TotalResults(results),
                          error_message |-> ""])]

save_scan_results(country, results, scan_type, faults) ==
    LET \* session created with status "running" and committed (l.34-41)
        cleared == clear_old_results(rows, country, "delete" \in faults)
        added   == NewRows(country, results)
    IN  IF "commit" \in faults
        THEN \* l.108-116: rollback of the pending inserts, session failed
             [rows     |-> cleared,
              sessions |-> Append(sessions,
                             [country |-> country, scan_type |-> scan_type,
                              status |-> "failed", results_count |-> 0,
                              error_message |-> "error"])]
        ELSE \* l.100-105
             [rows     |-> [k \in RowKeys |-> cleared[k] + added[k]],
              sessions |-> Append(sessions,
                             [country |-> country, scan_type |-> scan_type,
                              status |-> "completed",
                              results_count |-> TotalResults(results),
                              error_message |-> ""])]

\* ------------------------------------------------------------- the registry

\* `except Exception` of run_market_scanner_manual (l.2069-2071).
ReleaseOnErrorSkipped(m) == running_scans

ReleaseOnError(m) == running_scans \ {m}

\* l.2058-2059, after the save.
ReleaseOnCompletion(m) == running_scans \ {m}

\* ------------------------------------------------------------------- runs

\* The locals of a call at its first await.  cancelledIn records the await
\* during which cancel_market_scanner removed the market's token.
NewRun(m) ==
    [market |-> m, pc |-> "universe", cancelledIn |-> "none",
     ttm_squeeze_candidates |-> {}, volume_spike_candidates |-> {}]

NoResponse ==
    [market |-> "none", path |-> "none", status |-> 0, cancelledIn |-> "none",
     scanner_results |-> EmptyResults, session |-> 0, faults |-> {}]

\* No call of run_market_scanner_manual was made and the tables are empty.
NoCalls ==
    /\ runs = <<>>
    /\ started = 0
    /\ response = NoResponse
    /\ rows = [k \in RowKeys |-> 0]
    /\ sessions = <<>>

Init ==
    /\ running_scans = {}
    /\ NoCalls
    /\ batch = NoBatch
    /\ scheduler = NoScheduler
    /\ calc = NoCalc

Forget(r) == [x \in DOMAIN runs \ {r} |-> runs[x]]

\* The run raises: the handler of run_market_scanner_manual discards the
\* market and answers 500; nothing is stored.
Raise(r, path) ==
    /\ running_scans' = ReleaseOnError(runs[r].market)
    /\ runs' = Forget(r)
    /\ response' = [NoResponse EXCEPT !.market = runs[r].market,
                                      !.path = path, !.status = 500,
                                      !.cancelledIn = runs[r].cancelledIn]
    /\ UNCHANGED <<started, rows, sessions, batch, calc, scheduler>>

\* market_scanner_fast returned `results`: format them, save, release the
\* market, answer 200 (l.1996-2067).
Return(r, path, results, faults) ==
    LET m     == runs[r].market
        saved == save_scan_results(m, results, "manual", faults)
    IN  /\ rows' = saved.rows
        /\ sessions' = saved.sessions
        /\ running_scans' = ReleaseOnCompletion(m)
        /\ runs' = Forget(r)
        /\ response' = [market |-> m, path |-> path, status |-> 200,
                        cancelledIn |-> runs[r].cancelledIn,
                        scanner_results |-> results,
                        session |-> Len(sessions) + 1, faults |-> faults]
        /\ UNCHANGED <<started, batch, calc, scheduler>>

\* run_market_scanner_manual up to its first await (l.1966-1987, 1692-1700),
\* called by the HTTP endpoint or by the scheduler loop
\* (run_us_market_scanner, run_au_market_scanner): the function cannot tell
\* its callers apart.
StartScan(m) ==
    /\ started < MaxRuns
    /\ started' = started + 1
    /\ IF m \in running_scans
       THEN \* HTTPException(409) is raised inside the try block and caught
            \* by its `except Exception`
            /\ running_scans' = ReleaseOnError(m)
            /\ response' = [NoResponse EXCEPT !.market = m,
                                              !.path = "conflict",
                                              !.status = 500]
            /\ UNCHANGED runs
       ELSE /\ running_scans' = running_scans \cup {m}
            /\ runs' = (started + 1 :> NewRun(m)) @@ runs
            /\ response' = NoResponse
    /\ UNCHANGED <<rows, sessions, batch, calc, scheduler>>

\* cancel_market_scanner(country); with no token held it changes nothing.
\* Its own answer (a message) is not kept.
cancel_market_scanner(m) ==
    /\ m \in running_scans
    /\ running_scans' = running_scans \ {m}
    /\ runs' = [r \in DOMAIN runs |->
                  IF runs[r].market = m /\ runs[r].cancelledIn = "none"
                  THEN [runs[r] EXCEPT !.cancelledIn = runs[r].pc]
                  ELSE runs[r]]
    /\ response' = NoResponse
    /\ UNCHANGED <<started, rows, sessions, batch, calc, scheduler>>

\* The universe has no common stock: market_scanner_fast returns the list []
\* (l.1704-1706) and scanner_results["ttm_squeeze"] (l.2003) raises
\* TypeError before anything is formatted or saved.
EmptyUniverseSaved(r) ==
    \E f \in DbFaultSets : Return(r, "no_stocks", EmptyResults, f)

EmptyUniverse(r) == Raise(r, "no_stocks")

\* get_us_stocks / get_asx_stocks resolved (l.1697-1731).
UniverseDone(r) ==
    /\ r \in DOMAIN runs
    /\ runs[r].pc = "universe"
    /\ \/ Raise(r, "universe_error")
       \/ EmptyUniverse(r)
       \/ /\ runs[r].market \notin running_scans
          /\ \E f \in DbFaultSets : Return(r, "cancelled_before_fetch",
                                           EmptyResults, f)
       \/ /\ runs[r].market \in running_scans
          /\ runs' = [runs EXCEPT ![r].pc = "fetch"]
          /\ response' = NoResponse
          /\ UNCHANGED <<running_scans, started, rows, sessions,
                         batch, calc, scheduler>>

\* The gather of process_stock_batch_concurrent resolved; the filter runs in
\* memory (l.1733-1803).
FetchDone(r) ==
    /\ r \in DOMAIN runs
    /\ runs[r].pc = "fetch"
    /\ \/ /\ runs[r].market \notin running_scans
          /\ \E f \in DbFaultSets : Return(r, "cancelled_after_fetch",
                                           EmptyResults, f)
       \/ /\ runs[r].market \in running_scans
          /\ \/ Raise(r, "filter_error")
             \/ \E f \in DbFaultSets : Return(r, "no_candidates",
                                              EmptyResults, f)
             \/ \E fo \in FilterOutcomes :
                  /\ fo.ttm # {}
                  /\ runs' = [runs EXCEPT
                                ![r].pc = "analysis",
                                ![r].ttm_squeeze_candidates = fo.ttm,
                                ![r].volume_spike_candidates = fo.spikes]
                  /\ response' = NoResponse
                  /\ UNCHANGED <<running_scans, started, rows, sessions,
                                 batch, calc, scheduler>>

\* analyze_ttm_squeeze_concurrent resolved (l.1803-1876): no check of the
\* registry follows it.
AnalysisDone(r) ==
    /\ r \in DOMAIN runs
    /\ runs[r].pc = "analysis"
    /\ \E final \in SUBSET runs[r].ttm_squeeze_candidates,
          f \in DbFaultSets :
          Return(r, "full",
                 [ttm_squeeze |-> final,
                  volume_spikes |-> runs[r].volume_spike_candidates], f)

Next ==
    \/ \E m \in Markets : StartScan(m)
    \/ \E m \in Markets : cancel_market_scanner(m)
    \/ \E r \in 1..MaxRuns : UniverseDone(r)
    \/ \E r \in 1..MaxRuns : FetchDone(r)
    \/ \E r \in 1..MaxRuns : AnalysisDone(r)

Spec == Init /\ [][Next]_vars

TypeOK ==
    /\ running_scans \subseteq Markets
    /\ started <= MaxRuns
    /\ Len(sessions) <= started

\* ---------------------------------------------------------------- claims

\* The run that returns in this step, if any.
Returning(r) == r \in DOMAIN runs /\ r \notin DOMAIN runs'

\* The session save_scan_results stored last.
LastSession(ss) == ss[Len(ss)]

\* The save operation ran in this step.
Saved == Len(sessions') = Len(sessions) + 1

\* One row per squeeze result and one per spike result of `results`.
ExpectedRows(k, results) ==
    IF \/ k[2] = "ttm_squeeze" /\ k[3] \in results.ttm_squeeze
       \/ k[2] = "volume_spike" /\ k[3] \in results.volume_spikes
    THEN 1 ELSE 0

\* C1: at most one run per market is executing (between acquiring the
\* market's token and returning) at any time.
AtMostOneRunPerMarket ==
    \A m \in Markets :
        Cardinality({r \in DOMAIN runs : runs[r].market = m}) <= 1

\* C2: a start-scan for a market whose token is held does not enter Running
\* and is answered with HTTP 409.
ConflictAnsweredWith409 ==
    [][\A m \in Markets :
          (/\ started' = started + 1
           /\ m \in running_scans
           /\ response'.market = m)
          => (runs' = runs /\ response'.status = 409)]_vars

\* C3: a start-scan rejected because the token is held leaves the registry
\* unchanged, so the run in progress still finds its token.
RejectedStartKeepsRegistry ==
    [][(started' = started + 1 /\ DOMAIN runs' = DOMAIN runs)
           => running_scans' = running_scans]_vars

\* C4: a run whose token was removed by cancel-scan while it was in progress
\* writes nothing to the result store.
CancelledRunWritesNothing ==
    [][\A r \in 1..MaxRuns :
          (Returning(r) /\ runs[r].cancelledIn # "none")
              => (rows' = rows /\ sessions' = sessions)]_vars

\* C5: a run whose token was removed by cancel-scan during the fetch returns
\* without raising and with both result sets empty.
CancelledInFetchReturnsEmpty ==
    response.cancelledIn = "fetch"
        => (response.status = 200 /\ response.scanner_results = EmptyResults)

FailedRunHasFailedSession ==
    response.path \in {"universe_error", "filter_error"}
        => /\ response.session \in 1..Len(sessions)
           /\ sessions[response.session].status = "failed"
           /\ sessions[response.session].error_message # ""

CompletedSaveReplacesRows ==
    [][(Saved /\ LastSession(sessions').status = "completed")
          => \A k \in RowKeys :
                k[1] = LastSession(sessions').country
                    => rows'[k] = ExpectedRows(k, response'.scanner_results)]_vars

\* C10: a save for a market whose stored rows are those a completed save of
\* the same input left (the last session is that save's) leaves the rows of
\* the market, and their number, as they were.
SaveTwiceSameAsOnce ==
    [][\A m \in Markets :
          (/\ Saved
           /\ response'.market = m
           /\ Len(sessions) > 0
           /\ LastSession(sessions).country = m
           /\ LastSession(sessions).status = "completed"
           /\ \A k \in RowKeys :
                  k[1] = m => rows[k] = ExpectedRows(k, response'.scanner_results))
          => /\ \A k \in RowKeys : k[1] = m => rows'[k] = rows[k]
             /\ RowCount(rows', m) = RowCount(rows, m)]_vars

\* get_latest_results(country): the latest session of the country with
\* status "completed" (order by end_time desc; saves do not interleave, so
\* end_time grows with the id) and every row now stored for the country.
get_latest_results(country) ==
    LET done == {i \in 1..Len(sessions) :
                    /\ sessions[i].country = country
                    /\ sessions[i].status = "completed"}
        latest == CHOOSE i \in done : \A j \in done : j <= i
    IN  IF done = {}
        THEN [found |-> FALSE, results_count |-> 0, returned |-> 0]
        ELSE [found |-> TRUE,
              results_count |-> sessions[latest].results_count,
              returned |-> RowCount(rows, country)]

\* C11: if a step of the save raises after the session record was created,
\* the session ends failed with the error text; when the failure comes after
\* the delete step, the market is left with zero stored rows.
FailedSaveSessionAndRows ==
    [][(Saved /\ response'.faults # {})
          => /\ LastSession(sessions').status = "failed"
             /\ LastSession(sessions').error_message # ""
             /\ "commit" \in response'.faults
                    => RowCount(rows', response'.market) = 0]_vars

\* C12: whenever get-latest for a market returns a completed session, the
\* number of rows it returns equals that session's result count.
LatestRowsBelongToLatestSession ==
    \A m \in Markets :
        get_latest_results(m).found
            => get_latest_results(m).returned
                   = get_latest_results(m).results_count

\* ------------------------------------------------------- the fetched series

\* Largest close of a bar of the series under study.
MaxClose == 2

\* Numbers of bars of the series under study, around the two length tests of
\* the filter.
BarCounts == {20, 21, 29, 30, 31}

\* Volumes of the bars before the last three, and of the last three bars.
BaseVolumes == {0, 100000, 200000}

TailVolumes == {0, 250000, 900000, 1000000, 1100000}

\* A daily series of n bars in ascending date order (order = 'a'), given by
\* the few values it is made of: close cA up to bar n-2, then cB, then cLast;
\* volume vA up to bar n-15, vB up to bar n-3, then those of `tail`.
SeriesShapes ==
    [bars : BarCounts,
     cA : 1..MaxClose, cB : 1..MaxClose, cLast : 1..MaxClose,
     vA : BaseVolumes, vB : BaseVolumes,
     tail : [1..3 -> TailVolumes]]

\* response.json(): the list of bars.
Bars(d) ==
    [i \in 1..d.bars |->
        [close  |-> IF i = d.bars THEN d.cLast
                    ELSE IF i = d.bars - 1 THEN d.cB ELSE d.cA,
         volume |-> IF i > d.bars - 3 THEN d.tail[i - (d.bars - 3)]
                    ELSE IF i > d.bars - 15 THEN d.vB ELSE d.vA]]

\* The dicts fetch_stock_data_concurrent returns; None is the empty list.
FetchErrors == {"No data found", "Empty data", "error"}

FailedResult(symbol, error) ==
    [symbol |-> symbol, success |-> FALSE, error |-> error, data |-> <<>>]

OkResult(symbol, data) ==
    [symbol |-> symbol, success |-> TRUE, error |-> "", data |-> data]

\* --------------------------------------------------------------- arithmetic
\* Fractions are pairs <<numerator, denominator>> with denominator > 0, in
\* lowest terms: the floats of the code without their rounding.

RECURSIVE Gcd(_, _)
Gcd(a, b) == IF b = 0 THEN a ELSE Gcd(b, a % b)

Frac(n, d) == LET g == Gcd(IF n < 0 THEN -n ELSE n, d) IN <<n \div g, d \div g>>

\* seq[-k:] of a list of at least k elements
LastN(seq, k) == SubSeq(seq, Len(seq) - k + 1, Len(seq))

\* sorted(seq)[k-1]
SortedAt(seq, k) ==
    CHOOSE x \in {seq[i] : i \in DOMAIN seq} :
        /\ Cardinality({i \in DOMAIN seq : seq[i] < x}) < k
        /\ Cardinality({i \in DOMAIN seq : seq[i] <= x}) >= k

\* statistics.median of a non-empty list
median(seq) ==
    LET n == Len(seq)
    IN  IF n % 2 = 1 THEN Frac(SortedAt(seq, (n + 1) \div 2), 1)
        ELSE Frac(SortedAt(seq, n \div 2) + SortedAt(seq, n \div 2 + 1), 2)

\* calculate_ema(prices, period): seeded with the first price and run over
\* the whole list.  EmaFrom is the loop of l.1654 from prices[k] on, with the
\* value of `ema` it has reached (the denominator of a fraction is never 0).
RECURSIVE EmaFrom(_, _, _, _)
EmaFrom(prices, period, k, ema) ==
    IF k > Len(prices) \/ ema[2] = 0 THEN ema
    ELSE EmaFrom(prices, period, k + 1,
                 Frac(2 * prices[k] * ema[2] + (period - 1) * ema[1],
                      (period + 1) * ema[2]))

calculate_ema(prices, period) ==
    IF Len(prices) < period
    THEN IF prices # <<>> THEN Frac(prices[Len(prices)], 1) ELSE Frac(0, 1)
    ELSE EmaFrom(prices, period, 2, Frac(prices[1], 1))

\* ------------------------------------------------------ the in-memory filter

\* Defaults of market_scanner_fast and of run_market_scanner_manual.
min_turnover_us == 2000000

min_turnover_au == 500000

min_volume_spike_ratio_us == 10

min_volume_spike_ratio_au == 5

min_turnover(exchange) ==
    IF exchange = "AU" THEN min_turnover_au ELSE min_turnover_us

min_volume_spike_ratio(exchange) ==
    IF exchange = "AU" THEN min_volume_spike_ratio_au
    ELSE min_volume_spike_ratio_us

\* close_price * volume of the latest bar
volume_usd(stock_data) ==
    stock_data[Len(stock_data)].close * stock_data[Len(stock_data)].volume

\* l.1744: the test on a fetch result before anything is computed from it
HasEnoughData(data) ==
    data.success /\ data.data # <<>> /\ Len(data.data) > 20

\* l.1751
PassesTurnoverStrictly(stock_data, exchange) ==
    volume_usd(stock_data) > min_turnover(exchange)

PassesTurnover(stock_data, exchange) ==
    volume_usd(stock_data) >= min_turnover(exchange)

\* l.1776
has_volume_spike_above(recent_volumes, median_volume_30d, ratio) ==
    \A i \in DOMAIN recent_volumes :
        recent_volumes[i] * median_volume_30d[2] > median_volume_30d[1] * ratio

has_volume_spike(recent_volumes, median_volume_30d, ratio) ==
    \A i \in DOMAIN recent_volumes :
        recent_volumes[i] * median_volume_30d[2] >= median_volume_30d[1] * ratio

\* l.1777
above_ema(current_price, ema_9) == current_price * ema_9[2] > ema_9[1]

\* l.1744-1753: data is appended to ttm_squeeze_candidates
InTtmSqueezeCandidates(data, exchange) ==
    /\ HasEnoughData(data)
    /\ PassesTurnover(data.data, exchange)

\* l.1756-1787: the symbol is appended to volume_spike_candidates
InVolumeSpikeCandidates(data, exchange) ==
    /\ InTtmSqueezeCandidates(data, exchange)
    /\ Len(data.data) >= 30
    /\ LET stock_data == data.data
           volumes == [i \in DOMAIN stock_data |-> stock_data[i].volume]
           closes == [i \in DOMAIN stock_data |-> stock_data[i].close]
           recent_volumes == LastN(volumes, 3)
           trailing_volumes == LastN(volumes, 30)
           median_volume_30d == median(trailing_volumes)
       IN  /\ ~ (\/ median_volume_30d[1] <= 0
                 \/ \A i \in 1..3 : recent_volumes[i] = 0)
           /\ has_volume_spike(recent_volumes, median_volume_30d,
                               min_volume_spike_ratio(exchange))
           /\ above_ema(closes[Len(closes)], calculate_ema(closes, 9))

\* The filter about to be applied to a fetch result `in` (its data given by
\* the shape of the series).
FilterInput(exchange, in) ==
    [fn |-> "filter", pc |-> "input", exchange |-> exchange, in |-> in,
     ttm |-> FALSE, spike |-> FALSE]

ResultOf(in) ==
    IF in.success THEN OkResult(in.symbol, Bars(in.data))
    ELSE in

FilterInit ==
    /\ running_scans = {}
    /\ NoCalls
    /\ batch = NoBatch
    /\ scheduler = NoScheduler
    /\ \E exchange \in Markets :
          \/ \E e \in FetchErrors :
                calc = FilterInput(exchange, FailedResult("s1", e))
          \/ \E d \in SeriesShapes :
                calc = FilterInput(exchange, OkResult("s1", d))

\* One turn of the loop of l.1743 over a fetch result.
ApplyFilter ==
    /\ calc.fn = "filter"
    /\ calc.pc = "input"
    /\ LET data == ResultOf(calc.in)
       IN  calc' = [calc EXCEPT
                      !.pc = "done",
                      !.ttm = InTtmSqueezeCandidates(data, calc.exchange),
                      !.spike = InVolumeSpikeCandidates(data, calc.exchange)]
    /\ UNCHANGED <<running_scans, runs, started, response, rows, sessions,
                   batch, scheduler>>

FilterNext == ApplyFilter

SpecFilter == FilterInit /\ [][FilterNext]_vars

\* ------------------------------------------------------------ the fetcher

\* Largest number of symbols of a batch, and largest max_concurrent.
MaxBatch == 3

MaxConcurrent == 2

\* The code at position i of stock_codes.
StockCode(i) == "s" \o ToString(i)

\* What the data provider answers to a request: 404, a status that makes
\* raise_for_status raise (or a timeout, or a body that is no JSON), an empty
\* body, or the bars of a series.
SpikeShape ==
    [bars |-> 30, cA |-> 1, cB |-> 1, cLast |-> 2,
     vA |-> 100000, vB |-> 100000,
     tail |-> [i \in 1..3 |-> 1000000]]

Responses ==
    {[kind |-> k, shape |-> SpikeShape] : k \in {"404", "error", "empty"}}
        \cup {[kind |-> "data", shape |-> d] :
                 d \in {SpikeShape, [SpikeShape EXCEPT !.bars = 21],
                        [SpikeShape EXCEPT !.cLast = 1]}}

\* fetch_stock_data_concurrent, from the answer to its request on.
fetch_stock_data_unmarked(symbol, resp) ==
    [symbol |-> symbol, success |-> resp.kind # "error", error |-> "",
     data |-> IF resp.kind = "data" THEN resp.shape ELSE <<>>]

fetch_stock_data_concurrent(symbol, resp) ==
    CASE resp.kind = "404"   -> FailedResult(symbol, "No data found")
      [] resp.kind = "error" -> FailedResult(symbol, "error")
      [] resp.kind = "empty" -> FailedResult(symbol, "Empty data")
      [] resp.kind = "data"  -> [symbol |-> symbol, success |-> TRUE,
                                 error |-> "", data |-> resp.shape]

\* l.1211: the market's token is in the registry.
TokenAssumedHeld(exchange) == TRUE

TokenHeld(exchange) == exchange \in running_scans

\* asyncio.Semaphore.acquire does not wait.
SemaphoreNeverLocked(semaphore) == TRUE

SemaphoreFree(semaphore) == semaphore > 0

\* Where fetch_with_semaphore goes with the result of its request: it returns
\* it (l.1229).
RetryIfFailed(result) == IF result.success THEN "done" ELSE "sleep"

AfterRequest(result) == "done"

\* A task of the gather before its first step.
NewTask ==
    [pc |-> "created", requests |-> 0,
     answer |-> [kind |-> "none", shape |-> SpikeShape],
     result |-> FailedResult("", "")]

\* The batch call starts in a state of the run machine: no run, or the run of
\* a market at the await of its batch with the market's token held.
FetchInit ==
    /\ batch = NoBatch
    /\ scheduler = NoScheduler
    /\ calc = NoCalc
    /\ response = NoResponse
    /\ rows = [k \in RowKeys |-> 0]
    /\ sessions = <<>>
    /\ \/ running_scans = {} /\ runs = <<>> /\ started = 0
       \/ \E m \in Markets :
             /\ running_scans = {m}
             /\ runs = (1 :> [NewRun(m) EXCEPT !.pc = "fetch"])
             /\ started = 1

\* process_stock_batch_concurrent up to its gather (l.1206-1241), called by
\* market_scanner_fast right after its own test of the registry (l.1720) or by
\* one of the batch endpoints (l.588, 658, 1084), which take no token.
StartBatchUnchecked(caller, exchange, n, max_concurrent) ==
    /\ batch.pc = "none"
    /\ caller = "scanner"
          => \E r \in DOMAIN runs :
                /\ runs[r].market = exchange
                /\ runs[r].pc = "fetch"
                /\ runs[r].cancelledIn = "none"
    /\ batch' = [pc |-> "gather",
                 caller |-> caller,
                 exchange |-> exchange,
                 stock_codes |-> [i \in 1..n |-> StockCode(i)],
                 max_concurrent |-> max_concurrent,
                 token_at_start |-> exchange \in running_scans,
                 semaphore |-> max_concurrent,
                 tasks |-> [i \in 1..n |-> NewTask],
                 valid_results |-> <<>>,
                 ttm_squeeze_candidates |-> {},
                 volume_spike_candidates |-> {}]
    /\ UNCHANGED <<running_scans, runs, started, response, rows, sessions,
                   calc, scheduler>>

StartBatch(caller, exchange, n, max_concurrent) ==
    /\ batch.pc = "none"
    /\ caller = "scanner"
          => \E r \in DOMAIN runs :
                /\ runs[r].market = exchange
                /\ runs[r].pc = "fetch"
                /\ runs[r].cancelledIn = "none"
    /\ batch' = [pc |-> IF TokenHeld(exchange) THEN "gather" ELSE "returned",
                 caller |-> caller,
                 exchange |-> exchange,
                 stock_codes |-> [i \in 1..n |-> StockCode(i)],
                 max_concurrent |-> max_concurrent,
                 token_at_start |-> exchange \in running_scans,
                 semaphore |-> max_concurrent,
                 tasks |-> IF TokenHeld(exchange)
                           THEN [i \in 1..n |-> NewTask] ELSE <<>>,
                 valid_results |-> <<>>,
                 ttm_squeeze_candidates |-> {},
                 volume_spike_candidates |-> {}]
    /\ UNCHANGED <<running_scans, runs, started, response, rows, sessions,
                   calc, scheduler>>

\* `async with semaphore` is entered and the task sleeps (l.1219-1223).
Acquire(i) ==
    /\ batch.pc = "gather"
    /\ i \in DOMAIN batch.tasks
    /\ batch.tasks[i].pc = "created"
    /\ SemaphoreFree(batch.semaphore)
    /\ batch' = [batch EXCEPT !.semaphore = @ - 1, !.tasks[i].pc = "sleep"]
    /\ UNCHANGED <<running_scans, runs, started, response, rows, sessions,
                   calc, scheduler>>

\* The sleep is over: fetch_stock_data_concurrent sends its request
\* (l.1224, 1169-1170).
SendRequest(i) ==
    /\ batch.pc = "gather"
    /\ i \in DOMAIN batch.tasks
    /\ batch.tasks[i].pc = "sleep"
    /\ batch' = [batch EXCEPT !.tasks[i].pc = "request",
                              !.tasks[i].requests = @ + 1]
    /\ UNCHANGED <<running_scans, runs, started, response, rows, sessions,
                   calc, scheduler>>

\* The request is answered or fails; the task returns its result and leaves
\* the semaphore (l.1172-1204, 1225-1238).
Respond(i, resp) ==
    /\ batch.pc = "gather"
    /\ i \in DOMAIN batch.tasks
    /\ batch.tasks[i].pc = "request"
    /\ LET result == fetch_stock_data_concurrent(batch.stock_codes[i], resp)
       IN  batch' = [batch EXCEPT
                       !.tasks[i].pc = AfterRequest(result),
                       !.tasks[i].answer = resp,
                       !.tasks[i].result = result,
                       !.semaphore = IF AfterRequest(result) = "done"
                                     THEN @ + 1 ELSE @]
    /\ UNCHANGED <<running_scans, runs, started, response, rows, sessions,
                   calc, scheduler>>

\* The gather resolves: the results are returned (l.1242-1253) and
\* market_scanner_fast, when it is the caller, tests the registry and filters
\* them (l.1733-1787).
GatherDone ==
    /\ batch.pc = "gather"
    /\ \A i \in DOMAIN batch.tasks : batch.tasks[i].pc = "done"
    /\ LET valid_results == [i \in DOMAIN batch.tasks |->
                                batch.tasks[i].result]
           filtered == batch.caller = "scanner"
                       /\ batch.exchange \in running_scans
           ttm == {valid_results[j].symbol : j \in
                      {i \in DOMAIN valid_results :
                          InTtmSqueezeCandidates(ResultOf(valid_results[i]),
                                                 batch.exchange)}}
           spikes == {valid_results[j].symbol : j \in
                      {i \in DOMAIN valid_results :
                          InVolumeSpikeCandidates(ResultOf(valid_results[i]),
                                                  batch.exchange)}}
       IN  batch' = [batch EXCEPT
                       !.pc = "returned",
                       !.valid_results = valid_results,
                       !.ttm_squeeze_candidates =
                           IF filtered THEN ttm ELSE {},
                       !.volume_spike_candidates =
                           IF filtered THEN spikes ELSE {}]
    /\ UNCHANGED <<running_scans, runs, started, response, rows, sessions,
                   calc, scheduler>>

FetchNext ==
    \/ \E caller \in {"scanner", "endpoint"}, exchange \in Markets,
          n \in 0..MaxBatch, max_concurrent \in 1..MaxConcurrent :
          StartBatch(caller, exchange, n, max_concurrent)
    \/ \E i \in 1..MaxBatch : Acquire(i)
    \/ \E i \in 1..MaxBatch : SendRequest(i)
    \/ \E i \in 1..MaxBatch, resp \in Responses : Respond(i, resp)
    \/ GatherDone
    \/ \E m \in Markets : cancel_market_scanner(m)

SpecFetch == FetchInit /\ [][FetchNext]_vars

\* -------------------------------------------------------- the squeeze days

\* Largest number of bars of a series beyond the first 19.
MaxTailBars == 6

\* rolling(window=20): the Bollinger bands of the first 19 bars are NaN.
BbWindow == 20

\* The bands of a bar past the first 19: the Keltner channel is 5..10 and the
\* Bollinger bands lie inside it, on it or outside it.
BandValues ==
    [bb_upper : {9, 10, 11}, bb_lower : {4, 5},
     kc_upper : {10}, kc_lower : {5}]

\* The band columns of df for a series of n bars whose bars past the first 19
\* have the bands of `tail`.
Bands(n, tail) ==
    [i \in 1..n |->
        IF i < BbWindow
        THEN [nan |-> TRUE, bb_upper |-> 0, bb_lower |-> 0,
              kc_upper |-> 10, kc_lower |-> 5]
        ELSE [nan |-> FALSE,
              bb_upper |-> tail[i - (BbWindow - 1)].bb_upper,
              bb_lower |-> tail[i - (BbWindow - 1)].bb_lower,
              kc_upper |-> tail[i - (BbWindow - 1)].kc_upper,
              kc_lower |-> tail[i - (BbWindow - 1)].kc_lower]]

\* df['squeeze'] of a bar (l.89); a comparison with NaN is False.
InSqueezeStrictly(bar) ==
    /\ ~ bar.nan
    /\ bar.bb_upper < bar.kc_upper
    /\ bar.bb_lower > bar.kc_lower

InSqueeze(bar) ==
    /\ ~ bar.nan
    /\ bar.bb_upper <= bar.kc_upper
    /\ bar.bb_lower >= bar.kc_lower

\* The loop of l.93-98 from bar i down, with the days counted so far.
RECURSIVE CountSqueezeDays(_, _, _)
CountSqueezeDays(df, i, squeeze_days) ==
    IF i < 1 THEN squeeze_days
    ELSE IF InSqueeze(df[i])
         THEN CountSqueezeDays(df, i - 1, squeeze_days + 1)
         ELSE squeeze_days

squeeze_days(df) == CountSqueezeDays(df, Len(df), 0)

\* The input is a series shorter than the window, or one of 19 bars and up
\* to MaxTailBars more.
SqueezeInput(n, tail) ==
    [fn |-> "squeeze_days", pc |-> "input",
     in |-> [bars |-> n, tail |-> tail], squeeze_days |-> 0]

SqueezeInit ==
    /\ running_scans = {}
    /\ NoCalls
    /\ batch = NoBatch
    /\ scheduler = NoScheduler
    /\ \/ \E n \in {1, BbWindow - 1} : calc = SqueezeInput(n, <<>>)
       \/ \E k \in 1..MaxTailBars :
             \E tail \in [1..k -> BandValues] :
                calc = SqueezeInput(BbWindow - 1 + k, tail)

ApplySqueezeDays ==
    /\ calc.fn = "squeeze_days"
    /\ calc.pc = "input"
    /\ calc' = [calc EXCEPT
                  !.pc = "done",
                  !.squeeze_days = squeeze_days(Bands(calc.in.bars,
                                                      calc.in.tail))]
    /\ UNCHANGED <<running_scans, runs, started, response, rows, sessions,
                   batch, scheduler>>

SqueezeNext == ApplySqueezeDays

SpecSqueeze == SqueezeInit /\ [][SqueezeNext]_vars

\* -------------------------------------------------------- claims (fetcher)

\* The requests of the batch that were sent and are not answered yet.
InFlight == {i \in DOMAIN batch.tasks : batch.tasks[i].pc = "request"}

\* The batch returned to its caller.
Returned == batch.pc = "returned"

\* C13: the number of fetch requests of a batch that are in flight at the
\* same time never exceeds the batch's max_concurrent.
ConcurrencyBounded ==
    batch.pc # "none" => Cardinality(InFlight) <= batch.max_concurrent

\* C13 witness: as many requests in flight as the limit allows while a task
\* of the same batch waits for the semaphore.
ConcurrencyAtLimit ==
    /\ batch.pc = "gather"
    /\ Cardinality(InFlight) = batch.max_concurrent
    /\ \E i \in DOMAIN batch.tasks : batch.tasks[i].pc = "created"

\* C14: a batch started while the market's token is held issues at most one
\* request per symbol and returns exactly one outcome per input symbol.
OneOutcomePerSymbol ==
    (batch.pc # "none" /\ batch.token_at_start)
        => /\ \A i \in DOMAIN batch.tasks : batch.tasks[i].requests <= 1
           /\ Returned
                 => /\ Len(batch.valid_results) = Len(batch.stock_codes)
                    /\ \A i \in DOMAIN batch.stock_codes :
                          /\ batch.valid_results[i].symbol
                                 = batch.stock_codes[i]
                          /\ batch.tasks[i].requests = 1

\* C14 witness: a batch of the largest size returned with a failed outcome
\* among its outcomes.
BatchReturnedWithFailure ==
    /\ Returned
    /\ batch.token_at_start
    /\ Len(batch.valid_results) = MaxBatch
    /\ ~ batch.valid_results[1].success
    /\ batch.valid_results[MaxBatch].success

\* C15: a symbol whose fetch returned not-found or an empty body or raised is
\* marked failed and is in neither candidate set; the batch returns all the
\* same, and every other symbol has the outcome of its own request.
FailedFetchIsolated ==
    (Returned /\ batch.token_at_start)
        => \A i \in DOMAIN batch.stock_codes :
              LET result == batch.valid_results[i]
              IN  /\ result.symbol = batch.stock_codes[i]
                  /\ batch.tasks[i].answer.kind # "data"
                        => /\ ~ result.success
                           /\ result.error # ""
                           /\ result.symbol \notin batch.ttm_squeeze_candidates
                           /\ result.symbol \notin batch.volume_spike_candidates
                  /\ batch.tasks[i].answer.kind = "data"
                        => /\ result.success
                           /\ result.data = batch.tasks[i].answer.shape

\* C15 witness: the scanner's batch returned with a failed symbol and with
\* another symbol fetched and kept as a candidate of both sets.
FailedBesideCandidate ==
    /\ Returned
    /\ batch.caller = "scanner"
    /\ \E i, j \in DOMAIN batch.valid_results :
          /\ ~ batch.valid_results[i].success
          /\ batch.stock_codes[j] \in batch.ttm_squeeze_candidates
          /\ batch.stock_codes[j] \in batch.volume_spike_candidates

\* C16: a batch started while the market's token is absent from the registry
\* issues no request and returns an empty list.
NoTokenNoRequests ==
    (batch.pc # "none" /\ ~ batch.token_at_start)
        => /\ Returned
           /\ batch.valid_results = <<>>
           /\ \A i \in DOMAIN batch.tasks : batch.tasks[i].requests = 0

\* C16 witness: a batch of several symbols returned for a market without
\* token.
BatchWithoutTokenReturned ==
    /\ Returned
    /\ ~ batch.token_at_start
    /\ Len(batch.stock_codes) > 1

\* --------------------------------------------------------- claims (filter)

\* The result the filter was applied to, once it was.
Filtered == calc.fn = "filter" /\ calc.pc = "done"

FilteredData == ResultOf(calc.in).data

\* C17: the liquidity gate is inclusive: of the symbols the gate is applied
\* to, one whose turnover equals the market's minimum passes, one with a
\* smaller turnover is in neither candidate set, one with a larger turnover
\* passes.
TurnoverGateInclusive ==
    (Filtered /\ calc.in.success /\ calc.in.data.bars > 20)
        => LET latest == FilteredData[calc.in.data.bars]
               turnover == latest.close * latest.volume
           IN  /\ turnover = min_turnover(calc.exchange) => calc.ttm
               /\ turnover < min_turnover(calc.exchange)
                      => ~ calc.ttm /\ ~ calc.spike
               /\ turnover > min_turnover(calc.exchange) => calc.ttm

\* C17 witness: a symbol whose turnover equals the minimum was kept.
TurnoverAtMinimumKept ==
    /\ Filtered
    /\ calc.in.success
    /\ calc.in.data.bars > 20
    /\ volume_usd(FilteredData) = min_turnover(calc.exchange)
    /\ calc.ttm

\* C18: a fetched symbol that passes the liquidity gate is a squeeze
\* candidate if and only if its series has at least 20 bars.
SqueezeCandidateFromTwentyBars ==
    (/\ Filtered
     /\ calc.in.success
     /\ volume_usd(FilteredData) >= min_turnover(calc.exchange))
        => (calc.ttm <=> Len(FilteredData) >= 20)

\* C19: a symbol that passes the liquidity gate with at least 30 bars is a
\* spike candidate if and only if the median of its last 30 volumes is
\* positive, its last 3 volumes are not all zero, each of them is at least
\* the ratio times that median, and its latest close is above the EMA.
SpikeCandidateCriteria ==
    (/\ Filtered
     /\ calc.ttm
     /\ calc.in.data.bars >= 30)
        => LET df == FilteredData
               n == Len(df)
               last30 == [i \in 1..30 |-> df[n - 30 + i].volume]
               low == SortedAt(last30, 15)
               high == SortedAt(last30, 16)
               ratio == min_volume_spike_ratio(calc.exchange)
               ema == calculate_ema([i \in 1..n |-> df[i].close], 9)
           IN  calc.spike <=>
                  /\ low + high > 0
                  /\ \E i \in n-2..n : df[i].volume # 0
                  /\ \A i \in n-2..n : 2 * df[i].volume >= ratio * (low + high)
                  /\ df[n].close * ema[2] > ema[1]

\* C19 witness: a spike candidate whose smallest recent volume is exactly the
\* ratio times a median that lies between two different volumes.
SpikeCandidateAtRatio ==
    /\ Filtered
    /\ calc.spike
    /\ calc.in.data.vA # calc.in.data.vB
    /\ \E i \in 1..3 :
          2 * calc.in.data.tail[i]
              = min_volume_spike_ratio(calc.exchange)
                    * (calc.in.data.vA + calc.in.data.vB)

\* ---------------------------------------------------- claims (squeeze days)

\* C20: squeeze_days is the number of consecutive bars, counted backward from
\* the most recent one, with bb_upper <= kc_upper and bb_lower >= kc_lower:
\* the last squeeze_days bars satisfy it and the bar before them, if there is
\* one, does not.
SqueezeDaysIsTrailingRun ==
    (calc.fn = "squeeze_days" /\ calc.pc = "done")
        => LET df == Bands(calc.in.bars, calc.in.tail)
               n == Len(df)
               qualifies(i) == /\ ~ df[i].nan
                               /\ df[i].bb_upper <= df[i].kc_upper
                               /\ df[i].bb_lower >= df[i].kc_lower
           IN  /\ calc.squeeze_days \in 0..n
               /\ \A i \in (n - calc.squeeze_days + 1)..n : qualifies(i)
               /\ calc.squeeze_days < n => ~ qualifies(n - calc.squeeze_days)

\* C20 witness: five trailing bars in squeeze, the last with its Bollinger
\* bands on the Keltner channel, after a bar out of squeeze: five days.
FiveSqueezeDaysAtEquality ==
    /\ calc.fn = "squeeze_days"
    /\ calc.pc = "done"
    /\ calc.in.bars = BbWindow + 5
    /\ calc.in.tail[1].bb_upper > calc.in.tail[1].kc_upper
    /\ calc.in.tail[6].bb_upper = calc.in.tail[6].kc_upper
    /\ calc.in.tail[6].bb_lower = calc.in.tail[6].kc_lower
    /\ calc.squeeze_days = 5

\* ------------------------------------------------------------ exact numbers
\* The indicator columns are floats; the model computes them exactly.  A
\* natural number is the sequence of its digits in base Limb, lowest first,
\* without leading zeros, so that products of weights such as 201^6 fit.
Limb == 10000

RECURSIVE BigOf(_)
BigOf(k) == IF k = 0 THEN <<>> ELSE <<k % Limb>> \o BigOf(k \div Limb)

RECURSIVE BigAddFrom(_, _, _)
BigAddFrom(a, b, carry) ==
    IF a = <<>> /\ b = <<>>
    THEN IF carry = 0 THEN <<>> ELSE <<carry>>
    ELSE LET x == IF a = <<>> THEN 0 ELSE Head(a)
             y == IF b = <<>> THEN 0 ELSE Head(b)
             s == x + y + carry
         IN  <<s % Limb>> \o BigAddFrom(IF a = <<>> THEN <<>> ELSE Tail(a),
                                        IF b = <<>> THEN <<>> ELSE Tail(b),
                                        s \div Limb)

BigAdd(a, b) == BigAddFrom(a, b, 0)

\* a times a small natural k.
RECURSIVE BigScaleFrom(_, _, _)
BigScaleFrom(a, k, carry) ==
    IF a = <<>> THEN BigOf(carry)
    ELSE LET s == Head(a) * k + carry
         IN  <<s % Limb>> \o BigScaleFrom(Tail(a), k, s \div Limb)

BigScale(a, k) == IF k = 0 THEN <<>> ELSE BigScaleFrom(a, k, 0)

RECURSIVE BigMul(_, _)
BigMul(a, b) ==
    IF a = <<>> \/ b = <<>> THEN <<>>
    ELSE LET rest == BigMul(Tail(a), b)
         IN  BigAdd(BigScale(b, Head(a)),
                    IF rest = <<>> THEN <<>> ELSE <<0>> \o rest)

\* -1, 0 or 1 as a is below, equal to or above b.
RECURSIVE BigCmpFrom(_, _, _)
BigCmpFrom(a, b, i) ==
    IF i = 0 THEN 0
    ELSE IF a[i] < b[i] THEN -1
    ELSE IF a[i] > b[i] THEN 1
    ELSE BigCmpFrom(a, b, i - 1)

BigCmp(a, b) ==
    IF Len(a) < Len(b) THEN -1
    ELSE IF Len(a) > Len(b) THEN 1
    ELSE BigCmpFrom(a, b, Len(a))

\* A value of a float column: NaN, or the non-negative fraction num / den.
NaN == [nan |-> TRUE, num |-> <<>>, den |-> <<1>>]

Value(num, den) == [nan |-> FALSE, num |-> num, den |-> den]

Number(k) == Value(BigOf(k), <<1>>)

\* a > b on floats: False when either side is NaN.
Gt(a, b) ==
    /\ ~ a.nan
    /\ ~ b.nan
    /\ BigCmp(BigMul(a.num, b.den), BigMul(b.num, a.den)) = 1

\* a - b, kept as the pair of its terms; NaN when either term is.
Diff(a, b) == [nan |-> a.nan \/ b.nan, plus |-> a, minus |-> b]

\* d > 0 on floats.
Positive(d) == (~ d.nan) /\ Gt(d.plus, d.minus)

\* ------------------------------------------------------------- EMA stacking
\* Largest number of bars of a series given to the stacking check.
MaxEmaBars == 7

\* Closing prices of those bars.
ClosePrices == {1, 2, 3}

\* Series.ewm(span=span).mean() from row t on: row t is the mean of rows
\* 1..t, row i weighted by ((span - 1) / (span + 1))^(t - i).  pow is
\* (span + 1)^(t - 2), and num / den is row t - 1.
RECURSIVE EwmFrom(_, _, _, _, _, _, _)
EwmFrom(close, span, t, pow, num, den, out) ==
    IF t > Len(close) \/ Len(out) < 0 THEN out
    ELSE LET p == BigScale(pow, span + 1)
             n == BigAdd(BigScale(p, close[t]), BigScale(num, span - 1))
             d == BigAdd(p, BigScale(den, span - 1))
         IN  EwmFrom(close, span, t + 1, p, n, d, Append(out, Value(n, d)))

ewm_mean(close, span) ==
    IF close = <<>> THEN <<>>
    ELSE EwmFrom(close, span, 2, <<1>>, BigOf(close[1]), <<1>>,
                 <<Number(close[1])>>)

\* Series.diff(periods): NaN on the first `periods` rows.
diff(column, periods) ==
    [t \in 1..Len(column) |->
        IF t <= periods THEN Diff(NaN, NaN)
        ELSE Diff(column[t], column[t - periods])]

\* The test of l.283-285 on the latest row.
StackedWithoutSlopes(ema_9, ema_50, ema_200, ema_9_slope, ema_50_slope) ==
    Gt(ema_9, ema_50) /\ Gt(ema_50, ema_200)

Stacked(ema_9, ema_50, ema_200, ema_9_slope, ema_50_slope) ==
    /\ Gt(ema_9, ema_50)
    /\ Gt(ema_50, ema_200)
    /\ Positive(ema_9_slope)
    /\ Positive(ema_50_slope)

\* calculate_emas_and_check_stacking returns None when it raises.
NoEmaResult ==
    [none |-> TRUE, ema_9 |-> NaN, ema_50 |-> NaN, ema_200 |-> NaN,
     ema_9_slope |-> Diff(NaN, NaN), ema_50_slope |-> Diff(NaN, NaN),
     stacked |-> FALSE]

\* The dict returned for the latest row of the EMA columns.
EmaResult(ema_9, ema_50, ema_200, ema_9_slope, ema_50_slope) ==
    [none |-> FALSE, ema_9 |-> ema_9, ema_50 |-> ema_50,
     ema_200 |-> ema_200, ema_9_slope |-> ema_9_slope,
     ema_50_slope |-> ema_50_slope,
     stacked |-> Stacked(ema_9, ema_50, ema_200, ema_9_slope, ema_50_slope)]

\* An empty frame has no 'close' column: the KeyError is caught (l.327).
calculate_emas_and_check_stacking(close) ==
    IF close = <<>> THEN NoEmaResult
    ELSE LET n == Len(close)
             ema_9 == ewm_mean(close, 9)
             ema_50 == ewm_mean(close, 50)
             ema_200 == ewm_mean(close, 200)
         IN  EmaResult(ema_9[n], ema_50[n], ema_200[n],
                       diff(ema_9, 5)[n], diff(ema_50, 5)[n])

StackingInput(close) ==
    [fn |-> "stacking", pc |-> "input", in |-> [close |-> close],
     ema_result |-> NoEmaResult]

StackingInit ==
    /\ running_scans = {}
    /\ NoCalls
    /\ batch = NoBatch
    /\ scheduler = NoScheduler
    /\ \E n \in 0..MaxEmaBars :
          \E close \in [1..n -> ClosePrices] : calc = StackingInput(close)

ApplyStacking ==
    /\ calc.fn = "stacking"
    /\ calc.pc = "input"
    /\ calc' = [calc EXCEPT
                  !.pc = "done",
                  !.ema_result =
                      calculate_emas_and_check_stacking(calc.in.close)]
    /\ UNCHANGED <<running_scans, runs, started, response, rows, sessions,
                   batch, scheduler>>

StackingNext == ApplyStacking

SpecStacking == StackingInit /\ [][StackingNext]_vars

\* ------------------------------------------------------ the squeeze analysis
\* Longest run of equal bars at the end of an analysed series.
MaxRunBars == 16

\* Lengths of the analysed series: 25 bars, and enough for the longest run.
AnalysisBars == {BbWindow + 5, BbWindow + MaxRunBars + 1}

\* Bands of the bars of an analysed series: on the Keltner channel (in
\* squeeze) or above it.
RunBandValues ==
    [bb_upper : {10, 11}, bb_lower : {5}, kc_upper : {10}, kc_lower : {5}]

\* The band columns of a series of n bars whose last `run` bars have the
\* bands `fill`, after a bar with the bands `brk` and earlier bars with the
\* bands `fill` again.
RunBands(n, run, fill, brk) ==
    Bands(n, [k \in 1..(n - (BbWindow - 1)) |->
                 IF k + (BbWindow - 1) = n - run THEN brk ELSE fill])

\* calculate_atr(data, period=14): None, or the latest ATR.
AtrValues == {<<>>, <<0>>, <<1>>, <<2>>}

\* float(latest['close']) of an analysed series, in the unit of the ATR.
LatestCloses == {0, 100, 101}

\* Latest row of the EMA columns of an analysed series.
EmaRows ==
    [ema_9 : {Number(2), Number(3)}, ema_50 : {Number(2)},
     ema_200 : {Number(1), Number(2)},
     ema_9_slope : {Diff(Number(1), Number(1)), Diff(Number(2), Number(1))},
     ema_50_slope : {Diff(NaN, NaN), Diff(Number(2), Number(1))}]

\* min_squeeze_days as the caller supplies it (5 when omitted).
MinSqueezeDays == {1, 5, 6, 15}

\* l.105: None unless atr is truthy and the close is positive.
atr_ratio(atr, close) ==
    IF atr # <<>> /\ atr[1] # 0 /\ close > 0
    THEN <<Frac(atr[1] * 100, close)>>
    ELSE <<>>

\* l.107-113
IntensityHighAboveFifteen(days) ==
    IF days > 15 THEN "high"
    ELSE IF days >= 10 THEN "medium"
    ELSE "low"

squeeze_intensity(days) ==
    IF days >= 15 THEN "high"
    ELSE IF days >= 10 THEN "medium"
    ELSE "low"

NoSqueezeResult ==
    [none |-> TRUE, squeeze_days |-> 0, squeeze_intensity |-> "",
     atr |-> <<>>, atr_ratio |-> <<>>]

\* calculate_ttm_squeeze of a series with the band columns df, the ATR atr
\* and the latest close `close`.
SqueezeOfAnyLength(df, atr, close) ==
    LET days == squeeze_days(df)
    IN  IF days >= 1
        THEN [none |-> FALSE, squeeze_days |-> days,
              squeeze_intensity |-> squeeze_intensity(days),
              atr |-> atr, atr_ratio |-> atr_ratio(atr, close)]
        ELSE NoSqueezeResult

calculate_ttm_squeeze(df, atr, close) ==
    LET days == squeeze_days(df)
    IN  IF days >= 5
        THEN [none |-> FALSE, squeeze_days |-> days,
              squeeze_intensity |-> squeeze_intensity(days),
              atr |-> atr, atr_ratio |-> atr_ratio(atr, close)]
        ELSE NoSqueezeResult

\* calculate_ttm_squeeze_with_ema_filter, given what its two calls return.
EmaFilterSkipped(ema_result, squeeze_result) == squeeze_result

calculate_ttm_squeeze_with_ema_filter(ema_result, squeeze_result) ==
    IF ema_result.none \/ ~ ema_result.stacked
    THEN NoSqueezeResult
    ELSE squeeze_result

\* analyze_single_stock of analyze_ttm_squeeze_concurrent (l.1269-1275).
analyze_single_stock(squeeze_result, min_squeeze_days) ==
    IF (~ squeeze_result.none)
          /\ squeeze_result.squeeze_days >= min_squeeze_days
    THEN squeeze_result
    ELSE NoSqueezeResult

\* The volatility floor of market_scanner_fast (l.1818-1821): a result goes
\* to final_results unless its atr_ratio is a number below 1.0.
AtrFloorSkipped(result) == TRUE

PassesAtrFloor(result) ==
    ~ (result.atr_ratio # <<>>
          /\ result.atr_ratio[1][1] < result.atr_ratio[1][2])

AnalysisInput(data, min_squeeze_days) ==
    [fn |-> "analysis", pc |-> "input", in |-> data,
     min_squeeze_days |-> min_squeeze_days,
     ema_result |-> NoEmaResult, squeeze |-> NoSqueezeResult,
     filtered |-> NoSqueezeResult, analysed |-> NoSqueezeResult,
     final |-> FALSE]

AnalysisInit ==
    /\ running_scans = {}
    /\ NoCalls
    /\ batch = NoBatch
    /\ scheduler = NoScheduler
    /\ \E n \in AnalysisBars, run \in 0..MaxRunBars :
       \E fill \in RunBandValues, brk \in RunBandValues :
       \E atr \in AtrValues, close \in LatestCloses, ema \in EmaRows :
       \E min_squeeze_days \in MinSqueezeDays :
          calc = AnalysisInput([bars |-> n, run |-> run, fill |-> fill,
                                brk |-> brk, atr |-> atr, close |-> close,
                                ema |-> ema], min_squeeze_days)

\* One symbol through the squeeze half of market_scanner_fast: the EMA
\* check, the squeeze calculation, the minimum of squeeze days and the
\* volatility floor.
ApplyAnalysis ==
    /\ calc.fn = "analysis"
    /\ calc.pc = "input"
    /\ LET data == calc.in
           ema_result == EmaResult(data.ema.ema_9, data.ema.ema_50,
                                   data.ema.ema_200, data.ema.ema_9_slope,
                                   data.ema.ema_50_slope)
           squeeze == calculate_ttm_squeeze(
                          RunBands(data.bars, data.run, data.fill, data.brk),
                          data.atr, data.close)
           filtered == calculate_ttm_squeeze_with_ema_filter(ema_result,
                                                             squeeze)
           analysed == analyze_single_stock(filtered, calc.min_squeeze_days)
       IN  calc' = [calc EXCEPT
                      !.pc = "done",
                      !.ema_result = ema_result,
                      !.squeeze = squeeze,
                      !.filtered = filtered,
                      !.analysed = analysed,
                      !.final = (~ analysed.none) /\ PassesAtrFloor(analysed)]
    /\ UNCHANGED <<running_scans, runs, started, response, rows, sessions,
                   batch, scheduler>>

AnalysisNext == ApplyAnalysis

SpecAnalysis == AnalysisInit /\ [][AnalysisNext]_vars

\* ------------------------------------------------------- claims (analysis)
\* The squeeze days of the analysed series: the run of bars on the channel at
\* its end, as far as the bands are defined.
AnalysedDf == RunBands(calc.in.bars, calc.in.run, calc.in.fill, calc.in.brk)

\* C21: in the market-wide scan a symbol is in the squeeze results only if
\* its squeeze_days are at least the caller's min_squeeze_days and its
\* ATR-ratio, when there is one, is at least 1.0 (100 * atr >= close); a
\* symbol that passed the analysis is discarded when its ATR-ratio is below
\* 1.0 and kept when it has no ATR-ratio.
ReportedMeetsMinimumAndFloor ==
    (calc.fn = "analysis" /\ calc.pc = "done")
        => LET available == /\ calc.in.atr \notin {<<>>, <<0>>}
                            /\ calc.in.close > 0
               below == 100 * calc.in.atr[1] < calc.in.close
           IN  /\ calc.final
                    => /\ squeeze_days(AnalysedDf) >= calc.min_squeeze_days
                       /\ calc.analysed.squeeze_days
                             = squeeze_days(AnalysedDf)
                       /\ available => ~ below
               /\ (~ calc.analysed.none /\ available /\ below)
                    => ~ calc.final
               /\ (~ calc.analysed.none /\ ~ available) => calc.final

\* C21 witness: a stacked symbol six days in squeeze with the minimum at 6
\* is reported at an ATR-ratio of exactly 1.0.
ReportedAtFloor ==
    /\ calc.fn = "analysis"
    /\ calc.pc = "done"
    /\ calc.min_squeeze_days = 6
    /\ calc.analysed.squeeze_days = 6
    /\ calc.in.atr = <<1>>
    /\ calc.in.close = 100
    /\ calc.final

\* C22: the squeeze_intensity of a squeeze result is "high" from 15 squeeze
\* days, "medium" from 10 to 14 and "low" below; a series of 25 bars whose
\* last 6 bars are in squeeze has 6 squeeze days and the intensity "low".
IntensityFollowsSqueezeDays ==
    (calc.fn = "analysis" /\ calc.pc = "done")
        => LET result == calc.squeeze
               df == AnalysedDf
           IN  /\ (~ result.none)
                    => /\ result.squeeze_intensity \in {"high", "medium", "low"}
                       /\ result.squeeze_intensity = "high"
                             <=> result.squeeze_days >= 15
                       /\ result.squeeze_intensity = "medium"
                             <=> (10 <= result.squeeze_days
                                     /\ result.squeeze_days < 15)
               /\ (calc.in.bars = 25
                      /\ \A i \in 20..25 :
                            /\ df[i].bb_upper <= df[i].kc_upper
                            /\ df[i].bb_lower >= df[i].kc_lower)
                    => /\ ~ result.none
                       /\ result.squeeze_days = 6
                       /\ result.squeeze_intensity = "low"
               /\ \A r \in {calc.filtered, calc.analysed} :
                     (~ r.none) => r = result

\* C22 witness: 25 bars, the last 6 on the channel: 6 days, "low".
SixDaysOfTwentyFiveBarsLow ==
    /\ calc.fn = "analysis"
    /\ calc.pc = "done"
    /\ calc.in.bars = 25
    /\ calc.in.run = 6
    /\ calc.in.fill.bb_upper = 10
    /\ calc.squeeze.squeeze_days = 6
    /\ calc.squeeze.squeeze_intensity = "low"
    /\ calc.final

SignalOnlyWhenStacked ==
    (calc.fn = "analysis" /\ calc.pc = "done")
        => LET ema == calc.in.ema
               above(a, b) ==
                   BigCmp(BigMul(a.num, b.den), BigMul(b.num, a.den)) = 1
               rising(d) == (~ d.nan) /\ above(d.plus, d.minus)
               stacked == /\ above(ema.ema_9, ema.ema_50)
                          /\ above(ema.ema_50, ema.ema_200)
                          /\ rising(ema.ema_9_slope)
                          /\ rising(ema.ema_50_slope)
           IN  /\ calc.ema_result.stacked <=> stacked
               /\ (~ calc.filtered.none) => stacked
               /\ (~ stacked) => calc.filtered.none
               /\ calc.final => stacked

\* C24 witness: sixteen squeeze days, EMAs in order, but the 50-bar EMA
\* without a slope: no signal.
LongSqueezeNotStackedNoSignal ==
    /\ calc.fn = "analysis"
    /\ calc.pc = "done"
    /\ calc.squeeze.squeeze_days = 16
    /\ Gt(calc.in.ema.ema_9, calc.in.ema.ema_50)
    /\ Gt(calc.in.ema.ema_50, calc.in.ema.ema_200)
    /\ calc.in.ema.ema_50_slope.nan
    /\ ~ calc.ema_result.stacked
    /\ calc.filtered.none
    /\ ~ calc.final

\* ---------------------------------------------------------- the volume spike
\* Volumes of the bars of the series given to the spike calculations: those
\* before the last three, and the last three.
SpikeBaseVolumes == {0, 20000, 50000, 90000, 140000}

SpikeTailVolumes == {0, 280000, 290000, 300000, 500000, 1000000}

\* Rising series of 29 to 33 bars (see Bars).
VolumeShapes ==
    [bars : 29..33, cA : {1}, cB : {1}, cLast : {2},
     vA : SpikeBaseVolumes, vB : SpikeBaseVolumes,
     tail : [1..3 -> SpikeTailVolumes]]

\* volume[i] + ... + volume[j] + acc
RECURSIVE SumFrom(_, _, _, _)
SumFrom(volume, i, j, acc) ==
    IF i > j \/ acc < 0 THEN acc
    ELSE SumFrom(volume, i + 1, j, acc + volume[i])

\* df['volume_ratio'] at row i: volume / rolling(window=30).mean(), NaN
\* (the empty sequence) on the first 29 rows and when the mean is 0.
volume_ratio(volume, i) ==
    IF i < 30 THEN <<>>
    ELSE LET total == SumFrom(volume, i - 29, i, 0)
         IN  IF total = 0 THEN <<>> ELSE <<Frac(30 * volume[i], total)>>

\* ratio >= k on floats: False for NaN.
AtLeast(ratio, k) == ratio # <<>> /\ ratio[1][1] >= k * ratio[1][2]

\* The loop of l.175-179 from row i down, with the days counted so far.
RECURSIVE CountSpikeDays(_, _, _)
CountSpikeDays(volume, i, consecutive_days) ==
    IF i < 1 THEN consecutive_days
    ELSE IF AtLeast(volume_ratio(volume, i), 2)
         THEN CountSpikeDays(volume, i - 1, consecutive_days + 1)
         ELSE consecutive_days

\* l.181-187
spike_intensity(ratio) ==
    IF AtLeast(ratio, 10) THEN "extreme"
    ELSE IF AtLeast(ratio, 5) THEN "high"
    ELSE "moderate"

NoSpikeResult ==
    [none |-> TRUE, volume_ratio |-> <<>>, spike_intensity |-> "",
     consecutive_days |-> 0]

\* l.172: the latest ratio makes a spike.
SpikeAboveThree(ratio) == ratio # <<>> /\ ratio[1][1] > 3 * ratio[1][2]

IsSpike(ratio) == AtLeast(ratio, 3)

\* calculate_volume_spike of a series with the volumes `volume`.
calculate_volume_spike(volume) ==
    LET n == Len(volume)
        ratio == volume_ratio(volume, n)
    IN  IF IsSpike(ratio)
        THEN [none |-> FALSE, volume_ratio |-> ratio,
              spike_intensity |-> spike_intensity(ratio),
              consecutive_days |-> CountSpikeDays(volume, n, 0)]
        ELSE NoSpikeResult

\* The row run_market_scanner_manual stores for a spike candidate of the
\* scan (main.py l.2022-2053).
FunnelIntensityOfStandalone(max_spike_ratio) ==
    IF AtLeast(max_spike_ratio, 10) THEN "extreme"
    ELSE IF AtLeast(max_spike_ratio, 5) THEN "high"
    ELSE "moderate"

funnel_intensity(max_spike_ratio) ==
    IF AtLeast(max_spike_ratio, 20) THEN "extreme"
    ELSE IF AtLeast(max_spike_ratio, 10) THEN "high"
    ELSE "moderate"

NoSpikeRow ==
    [none |-> TRUE, volume_ratio |-> <<>>, spike_intensity |-> "",
     spike_days |-> 0, consecutive_days |-> 0]

FormatSpike(stock_data) ==
    LET volumes == [i \in DOMAIN stock_data |-> stock_data[i].volume]
        recent_volumes == LastN(volumes, 3)
        median_volume_30d == median(LastN(volumes, 30))
        largest == CHOOSE v \in {recent_volumes[i] : i \in 1..3} :
                      \A i \in 1..3 : recent_volumes[i] <= v
        max_spike_ratio ==
            IF median_volume_30d[1] > 0
            THEN <<Frac(largest * median_volume_30d[2],
                        median_volume_30d[1])>>
            ELSE <<Frac(0, 1)>>
    IN  [none |-> FALSE, volume_ratio |-> max_spike_ratio,
         spike_intensity |-> funnel_intensity(max_spike_ratio),
         spike_days |-> 3, consecutive_days |-> 3]

SpikeInput(exchange, shape) ==
    [fn |-> "spike", exchange |-> exchange, in |-> shape,
     standalone |-> "input", spike |-> NoSpikeResult,
     funnel |-> "input", row |-> NoSpikeRow]

SpikeInit ==
    /\ running_scans = {}
    /\ NoCalls
    /\ batch = NoBatch
    /\ scheduler = NoScheduler
    /\ \E exchange \in Markets, d \in VolumeShapes :
          calc = SpikeInput(exchange, d)

\* calculate_volume_spike(symbol, data) on the series.
ApplyVolumeSpike ==
    /\ calc.fn = "spike"
    /\ calc.standalone = "input"
    /\ LET stock_data == Bars(calc.in)
           volume == [i \in DOMAIN stock_data |-> stock_data[i].volume]
       IN  calc' = [calc EXCEPT !.standalone = "done",
                                !.spike = calculate_volume_spike(volume)]
    /\ UNCHANGED <<running_scans, runs, started, response, rows, sessions,
                   batch, scheduler>>

\* The series is a spike candidate of a scan of the exchange, and the run
\* formats it for the store.
ApplyFormatSpike ==
    /\ calc.fn = "spike"
    /\ calc.funnel = "input"
    /\ LET stock_data == Bars(calc.in)
       IN  /\ InVolumeSpikeCandidates(OkResult("s1", stock_data),
                                      calc.exchange)
           /\ calc' = [calc EXCEPT !.funnel = "done",
                                   !.row = FormatSpike(stock_data)]
    /\ UNCHANGED <<running_scans, runs, started, response, rows, sessions,
                   batch, scheduler>>

SpikeNext == ApplyVolumeSpike \/ ApplyFormatSpike

SpecSpike == SpikeInit /\ [][SpikeNext]_vars

\* ---------------------------------------------------------- claims (spike)
\* The volumes of the series under study.
SpikeVolumes == LET stock_data == Bars(calc.in)
                IN  [i \in DOMAIN stock_data |-> stock_data[i].volume]

TwoSpikeIntensityPolicies ==
    /\ (calc.fn = "spike" /\ calc.standalone = "done" /\ ~ calc.spike.none)
          => LET volume == SpikeVolumes
                 n == Len(volume)
                 total == SumFrom(volume, n - 29, n, 0)
                 times(k) == 30 * volume[n] >= k * total
             IN  calc.spike.spike_intensity
                    = IF times(10) THEN "extreme"
                      ELSE IF times(5) THEN "high" ELSE "moderate"
    /\ (calc.fn = "spike" /\ calc.funnel = "done")
          => LET volume == SpikeVolumes
                 n == Len(volume)
                 m == median(LastN(volume, 30))
                 times(k) == \E i \in (n - 2)..n :
                                volume[i] * m[2] >= k * m[1]
             IN  /\ ~ calc.row.none
                 /\ calc.row.spike_days = 3
                 /\ calc.row.consecutive_days = 3
                 /\ calc.row.spike_intensity
                       = IF times(20) THEN "extreme"
                         ELSE IF times(10) THEN "high" ELSE "moderate"

\* C26 witness: one series is "high" for the standalone function (ratio to
\* the mean in 5..10) and "extreme" in the stored row (20 times the median).
HighStandaloneExtremeInFunnel ==
    /\ calc.fn = "spike"
    /\ calc.standalone = "done"
    /\ calc.funnel = "done"
    /\ calc.spike.spike_intensity = "high"
    /\ calc.spike.consecutive_days < 3
    /\ calc.row.spike_intensity = "extreme"
    /\ calc.row.volume_ratio = << <<20, 1>> >>
    /\ calc.row.consecutive_days = 3

\* --------------------------------------------------------------- the scheduler
\* The wall clock counts ticks of 30 seconds from midnight, Sydney time.
TicksPerMinute == 2

\* asyncio.sleep(60) and asyncio.sleep(120), in ticks.
SleepTicks == 2

CoolDownTicks == 4

\* The loop is started at 06:58:00 or 06:58:30 and watched until LastTick
\* (16:35:00), past both triggers of the day.
FirstTick == 836

LastTick == 1990

\* datetime.now(SYDNEY_TZ).time() at a tick.
current_time(now) ==
    LET minute_of_day == (now \div TicksPerMinute) % 1440
    IN  [hour |-> minute_of_day \div 60, minute |-> minute_of_day % 60]

\* l.84 and l.91: 7:00 triggers the US scanner, 16:30 the AU scanner.
AtTrigger(m, time) ==
    IF m = "US" THEN time.hour = 7 /\ time.minute = 0
    ELSE time.hour = 16 /\ time.minute = 30

\* How an awaited run_market_scanner_manual ends: with its result, or with
\* the HTTPException of a fetch failure, of a scan of the market already
\* running, or of a failed save.
RunOutcomes ==
    {"completed", "fetch failure", "conflict", "persistence failure"}

\* run_us_market_scanner / run_au_market_scanner (l.22-44) catch every
\* Exception of the run: the loop goes on to its cool-down whatever the
\* outcome.
AfterRunRaising(outcome) ==
    IF outcome = "completed" THEN "cooldown" ELSE "exited"

AfterRun(outcome) == "cooldown"

NoFire == [market |-> "none", at |-> 0]

\* schedule_scanners is entered: self.running = True (l.74).
SchedulerInit ==
    /\ running_scans = {}
    /\ NoCalls
    /\ batch = NoBatch
    /\ calc = NoCalc
    /\ \E now \in {FirstTick, FirstTick + 1} :
          scheduler = [running |-> TRUE, pc |-> "poll", remaining |-> 0,
                       now |-> now, market |-> "none", fired |-> NoFire,
                       outcome |-> "none"]

SchedulerStep(next) ==
    /\ scheduler' = next
    /\ UNCHANGED <<running_scans, runs, started, response, rows, sessions,
                   batch, calc>>

\* The loop test and the body up to its first await (l.77-93): the loop
\* ends, or awaits the run of the market whose trigger minute it is, or
\* goes to the sleep of l.98.
Poll ==
    /\ scheduler.pc = "poll"
    /\ LET time == current_time(scheduler.now)
       IN  IF ~ scheduler.running
           THEN SchedulerStep([scheduler EXCEPT !.pc = "exited"])
           ELSE IF \E m \in Markets : AtTrigger(m, time)
           THEN LET m == CHOOSE x \in Markets : AtTrigger(x, time)
                IN  SchedulerStep([scheduler EXCEPT
                        !.pc = "run", !.market = m, !.outcome = "none",
                        !.fired = [market |-> m, at |-> scheduler.now]])
           ELSE SchedulerStep([scheduler EXCEPT
                    !.pc = "sleep", !.remaining = SleepTicks,
                    !.outcome = "none"])

\* The awaited run ends (l.86, l.93); then the sleep of 120 seconds.
RunEndsWithoutCoolDown(outcome) ==
    /\ scheduler.pc = "run"
    /\ SchedulerStep([scheduler EXCEPT
           !.pc = "cooldown", !.outcome = outcome, !.remaining = 0])

RunEnds(outcome) ==
    /\ scheduler.pc = "run"
    /\ SchedulerStep([scheduler EXCEPT
           !.pc = AfterRun(outcome), !.outcome = outcome,
           !.remaining = CoolDownTicks])

\* A sleep is over: after the cool-down the sleep of l.98, after that the
\* loop test.
Wake ==
    /\ scheduler.pc \in {"cooldown", "sleep"}
    /\ scheduler.remaining = 0
    /\ IF scheduler.pc = "cooldown"
       THEN SchedulerStep([scheduler EXCEPT !.pc = "sleep",
                                            !.remaining = SleepTicks])
       ELSE SchedulerStep([scheduler EXCEPT !.pc = "poll"])

\* stop() (l.104-107)
stop ==
    /\ scheduler.pc \notin {"none", "exited"}
    /\ scheduler.running
    /\ SchedulerStep([scheduler EXCEPT !.running = FALSE])

\* 30 seconds pass; a sleeper may be woken late.
Tick ==
    /\ scheduler.pc \notin {"none", "exited"}
    /\ scheduler.now < LastTick
    /\ SchedulerStep([scheduler EXCEPT
           !.now = @ + 1,
           !.remaining = IF @ > 0 THEN @ - 1 ELSE 0])

SchedulerNext ==
    \/ Poll
    \/ \E outcome \in RunOutcomes : RunEnds(outcome)
    \/ Wake
    \/ stop
    \/ Tick

SpecScheduler == SchedulerInit /\ [][SchedulerNext]_vars

\* ------------------------------------------------------- claims (scheduler)
\* C27: a trigger minute starts at most one run: once a run was started the
\* loop does not test the clock again before the cool-down of 120 seconds
\* and the sleep of 60 seconds have passed, which is after the minute of the
\* trigger.
OneRunPerTriggerMinute ==
    (scheduler.pc = "poll" /\ scheduler.fired.market # "none")
        => /\ scheduler.now >= scheduler.fired.at + 3 * TicksPerMinute
           /\ scheduler.now \div TicksPerMinute
                 > scheduler.fired.at \div TicksPerMinute

\* C27 witness: the loop is back at its test three minutes after it started
\* the US run at 7:00:30.
PollsAgainAfterCoolDown ==
    /\ scheduler.pc = "poll"
    /\ scheduler.running
    /\ scheduler.fired = [market |-> "US", at |-> 841]
    /\ scheduler.now = 847

\* C28: the run is started fire-and-forget: the loop only waits the
\* cool-down and is back at minute polling while the run is still in
\* progress, so that three minutes after a trigger (120 + 60 seconds) the
\* loop is never still waiting for the run it started.
RunNeverDelaysPolling ==
    scheduler.pc = "run"
        => scheduler.now < scheduler.fired.at + 3 * TicksPerMinute

\* C29: no outcome of a run ends the loop: when the awaited run ends,
\* completed or with any error, the loop goes to its cool-down with
\* self.running as it was, and the loop ends only at its test and only after
\* stop() has cleared self.running.
RunErrorsAbsorbed ==
    [][/\ (scheduler.pc = "run" /\ scheduler'.pc # "run")
             => /\ scheduler'.pc = "cooldown"
                /\ scheduler'.running = scheduler.running
                /\ scheduler'.outcome \in RunOutcomes
       /\ (scheduler.pc # "exited" /\ scheduler'.pc = "exited")
             => /\ scheduler.pc = "poll"
                /\ ~ scheduler.running
       /\ (scheduler.running /\ ~ scheduler'.running)
             => scheduler'.pc = scheduler.pc]_vars

\* C29 witness: the AU run ended on a conflict with a running scan, and the
\* loop, not stopped, is back at its test.
PollsAfterConflict ==
    /\ scheduler.pc = "poll"
    /\ scheduler.running
    /\ scheduler.outcome = "conflict"
    /\ scheduler.fired.market = "AU"

\* ----------------------------------------------------------- claims (store)
\* C30: a save for one market leaves the result rows of every other market
\* as they were: its delete step removes rows of its own market only.
SaveKeepsOtherMarketsRows ==
    [][Saved => \A k \in RowKeys :
                   k[1] # response'.market => rows'[k] = rows[k]]_vars

\* C30 witness: a save for the US has just run while the AU has a stored
\* row.
SavedBesideOtherMarketsRows ==
    /\ response.market = "US"
    /\ response.session = 2
    /\ sessions[2].country = "US"
    /\ sessions[1].country = "AU"
    /\ rows[<<"AU", "ttm_squeeze", "s1">>] = 1

\* ------------------------------------------------------- the analysis batch
\* Largest number of symbols given to one analyze_ttm_squeeze_concurrent.
MaxAnalysed == 3

\* Series of the symbols of a batch: 25 bars with six squeeze days and
\* stacked EMAs, the same with four squeeze days, and the first with EMAs
\* that are not stacked.
BatchSeries ==
    LET on == [bb_upper |-> 10, bb_lower |-> 5, kc_upper |-> 10,
               kc_lower |-> 5]
        off == [bb_upper |-> 11, bb_lower |-> 5, kc_upper |-> 10,
                kc_lower |-> 5]
        stacked == [ema_9 |-> Number(3), ema_50 |-> Number(2),
                    ema_200 |-> Number(1),
                    ema_9_slope |-> Diff(Number(2), Number(1)),
                    ema_50_slope |-> Diff(Number(2), Number(1))]
        six == [bars |-> 25, run |-> 6, fill |-> on, brk |-> off,
                atr |-> <<2>>, close |-> 100, ema |-> stacked]
    IN  {six, [six EXCEPT !.run = 4],
         [six EXCEPT !.ema.ema_200 = Number(2)]}

\* Where the analysis of a symbol raises, if it does: in the EMA check
\* (caught at technical_calcs.py l.327), in the squeeze calculation (l.140),
\* in the EMA-filtered function (l.364) or in analyze_single_stock itself
\* (main.py l.1277).
AnalysisFaults == {"none", "ema", "squeeze", "filter", "analyze"}

\* analyze_single_stock of one entry of stock_data_list, with its
\* try/except: [symbol, result], the result None when anything raised.
AnalyseEntry(stock_data, min_squeeze_days) ==
    LET data == stock_data.data
        ema_result ==
            IF stock_data.fault = "ema" THEN NoEmaResult
            ELSE EmaResult(data.ema.ema_9, data.ema.ema_50,
                           data.ema.ema_200, data.ema.ema_9_slope,
                           data.ema.ema_50_slope)
        squeeze ==
            IF stock_data.fault = "squeeze" THEN NoSqueezeResult
            ELSE calculate_ttm_squeeze(
                     RunBands(data.bars, data.run, data.fill, data.brk),
                     data.atr, data.close)
        filtered ==
            IF stock_data.fault = "filter" THEN NoSqueezeResult
            ELSE calculate_ttm_squeeze_with_ema_filter(ema_result, squeeze)
    IN  [symbol |-> stock_data.symbol,
         result |-> IF stock_data.fault = "analyze" THEN NoSqueezeResult
                    ELSE analyze_single_stock(filtered, min_squeeze_days)]

\* The entries of seq whose position is marked in keep, in order.
RECURSIVE SelectFrom(_, _, _, _)
SelectFrom(seq, keep, i, out) ==
    IF i > Len(seq) \/ Len(out) < 0 THEN out
    ELSE SelectFrom(seq, keep, i + 1,
                    IF keep[i] THEN Append(out, seq[i]) ELSE out)

\* analyze_ttm_squeeze_concurrent: the gathered results without the None
\* ones; `raised` tells whether the call itself raises.
AnalyzeFailingWithAnySymbol(stock_data_list, min_squeeze_days) ==
    [raised |-> \E i \in DOMAIN stock_data_list :
                   stock_data_list[i].fault # "none",
     valid_results |-> <<>>]

analyze_ttm_squeeze_concurrent(stock_data_list, min_squeeze_days) ==
    LET results == [i \in DOMAIN stock_data_list |->
                       AnalyseEntry(stock_data_list[i], min_squeeze_days)]
        valid == [i \in DOMAIN results |-> ~ results[i].result.none]
    IN  [raised |-> FALSE,
         valid_results |-> SelectFrom(results, valid, 1, <<>>)]

BatchAnalysisInput(stock_data_list, min_squeeze_days) ==
    [fn |-> "analysis_batch", pc |-> "input", in |-> stock_data_list,
     min_squeeze_days |-> min_squeeze_days, raised |-> FALSE,
     valid_results |-> <<>>]

BatchAnalysisInit ==
    /\ running_scans = {}
    /\ NoCalls
    /\ batch = NoBatch
    /\ scheduler = NoScheduler
    /\ \E n \in 1..MaxAnalysed, min_squeeze_days \in {1, 5} :
       \E series \in [1..n -> BatchSeries] :
       \E faults \in [1..n -> AnalysisFaults] :
          calc = BatchAnalysisInput(
                     [i \in 1..n |-> [symbol |-> i, data |-> series[i],
                                      fault |-> faults[i]]],
                     min_squeeze_days)

ApplyBatchAnalysis ==
    /\ calc.fn = "analysis_batch"
    /\ calc.pc = "input"
    /\ LET out == analyze_ttm_squeeze_concurrent(calc.in,
                                                 calc.min_squeeze_days)
       IN  calc' = [calc EXCEPT !.pc = "done", !.raised = out.raised,
                                !.valid_results = out.valid_results]
    /\ UNCHANGED <<running_scans, runs, started, response, rows, sessions,
                   batch, scheduler>>

BatchAnalysisNext == ApplyBatchAnalysis

SpecBatchAnalysis == BatchAnalysisInit /\ [][BatchAnalysisNext]_vars

\* ------------------------------------------------- claims (analysis batch)
\* C31: an exception while the indicators of one symbol are computed makes
\* that symbol a symbol without signal and nothing else: the call does not
\* raise, and its results are those of the same list without the failing
\* symbols.
AnalysisFailureIsolated ==
    (calc.fn = "analysis_batch" /\ calc.pc = "done")
        => LET sound == [i \in DOMAIN calc.in |->
                            calc.in[i].fault = "none"]
               without == SelectFrom(calc.in, sound, 1, <<>>)
               expected == analyze_ttm_squeeze_concurrent(
                               without, calc.min_squeeze_days)
           IN  /\ ~ calc.raised
               /\ calc.valid_results = expected.valid_results
               /\ \A i \in DOMAIN calc.in :
                     (~ sound[i])
                        => \A j \in DOMAIN calc.valid_results :
                              calc.valid_results[j].symbol
                                 # calc.in[i].symbol

\* C31 witness: of three symbols with six squeeze days and stacked EMAs the
\* second raises in the squeeze calculation: the first and the third are
\* reported.
FailingSymbolBetweenReported ==
    /\ calc.fn = "analysis_batch"
    /\ calc.pc = "done"
    /\ Len(calc.in) = 3
    /\ calc.in[2].fault = "squeeze"
    /\ calc.in[2].data.run = 6
    /\ Len(calc.valid_results) = 2
    /\ calc.valid_results[1].symbol = 1
    /\ calc.valid_results[2].symbol = 3

RunningRunHasRunningSession ==
    \A r \in DOMAIN runs :
        \E i \in DOMAIN sessions :
            /\ sessions[i].country = runs[r].market
            /\ sessions[i].status = "running"

\* ------------------------------------------------------------- the batches
\* Largest number of codes of a symbol universe or of a request.
MaxUniverse == 2001

\* batch_size of the batch endpoints (l.650).
batch_size == 1000

\* A caller of process_stock_batch_concurrent about to go through its
\* codes: market_scanner_fast (l.1704-1731) or the endpoint
\* analyze_ttm_squeeze (l.649-679).
BatchingInput(caller, codes) ==
    [fn |-> "batching", caller |-> caller, codes |-> codes, pc |-> "loop",
     i |-> 0, size |-> 0, calls |-> 0]

BatchingInit ==
    /\ running_scans = {}
    /\ NoCalls
    /\ batch = NoBatch
    /\ scheduler = NoScheduler
    /\ \E caller \in {"scanner", "endpoint"}, codes \in 0..MaxUniverse :
          calc = BatchingInput(caller, codes)

BatchingStep(next) ==
    /\ calc' = next
    /\ UNCHANGED <<running_scans, runs, started, response, rows, sessions,
                   batch, scheduler>>

\* market_scanner_fast: nothing for an empty universe (l.1704-1706), else
\* one call with every code (l.1725-1731).
ScannerFetch ==
    /\ calc.fn = "batching"
    /\ calc.caller = "scanner"
    /\ calc.pc = "loop"
    /\ IF calc.codes = 0
       THEN BatchingStep([calc EXCEPT !.pc = "done"])
       ELSE BatchingStep([calc EXCEPT !.pc = "fetch", !.calls = 1,
                                      !.size = calc.codes])

\* The loop of the endpoint: the next slice stock_codes[i:i + batch_size],
\* or the end of the loop.
EndpointFetch ==
    /\ calc.fn = "batching"
    /\ calc.caller = "endpoint"
    /\ calc.pc = "loop"
    /\ IF calc.i >= calc.codes
       THEN BatchingStep([calc EXCEPT !.pc = "done"])
       ELSE BatchingStep([calc EXCEPT
                !.pc = "fetch", !.calls = @ + 1,
                !.size = IF calc.codes - calc.i < batch_size
                         THEN calc.codes - calc.i ELSE batch_size])

\* The awaited fetch returns: every outcome of the call has resolved.
BatchFetched ==
    /\ calc.fn = "batching"
    /\ calc.pc = "fetch"
    /\ BatchingStep([calc EXCEPT
           !.pc = IF calc.caller = "scanner" THEN "done" ELSE "analyse"])

\* The awaited analysis of the batch returns; then the sleep of 0.05 s when
\* another batch follows.
BatchAnalysed ==
    /\ calc.fn = "batching"
    /\ calc.pc = "analyse"
    /\ IF calc.i + batch_size < calc.codes
       THEN BatchingStep([calc EXCEPT !.pc = "sleep"])
       ELSE BatchingStep([calc EXCEPT !.pc = "loop", !.i = @ + batch_size])

BatchSlept ==
    /\ calc.fn = "batching"
    /\ calc.pc = "sleep"
    /\ BatchingStep([calc EXCEPT !.pc = "loop", !.i = @ + batch_size])

BatchingNext ==
    \/ ScannerFetch
    \/ EndpointFetch
    \/ BatchFetched
    \/ BatchAnalysed
    \/ BatchSlept

SpecBatching == BatchingInit /\ [][BatchingNext]_vars

\* ---------------------------------------------------------- claims (batches)
\* C34: the market-wide scan fetches its universe in batches of at most 1000
\* symbols, one batch after the other: a fetch call of the scan in progress
\* never has more than 1000 symbols.
ScanFetchesInBatchesOfThousand ==
    (calc.fn = "batching" /\ calc.caller = "scanner" /\ calc.pc = "fetch")
        => calc.size <= 1000

\* C35: every trigger minute of a market leads to one run of it in that
\* minute, whatever the earlier runs and the drift of the sleeps: while the
\* loop is running, once the clock is past 7:00 (and before 16:30) the US
\* run was started by a test of the clock made in the minute 7:00.
EveryTriggerMinuteRuns ==
    LET time == current_time(scheduler.now)
        minute_of_day == time.hour * 60 + time.minute
    IN  (/\ scheduler.pc \notin {"none", "exited"}
         /\ scheduler.running
         /\ minute_of_day > 7 * 60
         /\ minute_of_day < 16 * 60 + 30)
            => /\ scheduler.fired.market = "US"
               /\ AtTrigger("US", current_time(scheduler.fired.at))

\* ------------------------------------------------------ the Bollinger bands
\* Largest number of closes of a series that differ from its first closes.
MaxBbTail == 3

\* ddof of Series.rolling(...).std(), which l.70 leaves at the default of
\* pandas: the divisor of the variance is the window less ddof.
StdDdof == 1

\* df['bb_middle'] at bar i (l.69): the mean of the 20 closes ending at i,
\* NaN (the empty sequence) on the first 19 bars.
bb_middle(close, i) ==
    IF i < BbWindow THEN <<>>
    ELSE << Frac(SumFrom(close, i - (BbWindow - 1), i, 0), BbWindow) >>

\* The square of bb_std at bar i (l.70): the sum of the squared deviations
\* of the 20 closes from their mean,
\*   (20 * sum(x^2) - sum(x)^2) / 20,
\* over the divisor 20 - ddof; NaN on the first 19 bars.
bb_variance(close, i) ==
    IF i < BbWindow THEN <<>>
    ELSE LET squares == [k \in DOMAIN close |-> close[k] * close[k]]
             total == SumFrom(close, i - (BbWindow - 1), i, 0)
             total_squares == SumFrom(squares, i - (BbWindow - 1), i, 0)
         IN  << Frac(BbWindow * total_squares - total * total,
                     BbWindow * (BbWindow - StdDdof)) >>

\* The square of bb_upper - bb_middle = bb_middle - bb_lower = bb_std * 2
\* (l.71-72).
bb_half_width_squared(close, i) ==
    IF bb_variance(close, i) = <<>> THEN <<>>
    ELSE LET variance == bb_variance(close, i)[1]
         IN  << Frac(2 * 2 * variance[1], variance[2]) >>

\* The band columns of a series of closes.
bollinger_bands(close) ==
    [i \in DOMAIN close |->
        [bb_middle |-> bb_middle(close, i),
         half_width_squared |-> bb_half_width_squared(close, i)]]

\* The input is a series of 19 to 19 + MaxBbTail closes: a first close
\* repeated, then up to MaxBbTail closes of any price.
BollingerInput(close) ==
    [fn |-> "bollinger", pc |-> "input", close |-> close, bands |-> <<>>]

BollingerInit ==
    /\ running_scans = {}
    /\ NoCalls
    /\ batch = NoBatch
    /\ scheduler = NoScheduler
    /\ \E n \in (BbWindow - 1)..(BbWindow - 1 + MaxBbTail),
          first \in ClosePrices :
          \E tail \in [1..MaxBbTail -> ClosePrices] :
             calc = BollingerInput(
                        [i \in 1..n |-> IF i <= n - MaxBbTail THEN first
                                        ELSE tail[i - (n - MaxBbTail)]])

ApplyBollinger ==
    /\ calc.fn = "bollinger"
    /\ calc.pc = "input"
    /\ calc' = [calc EXCEPT !.pc = "done",
                            !.bands = bollinger_bands(calc.close)]
    /\ UNCHANGED <<running_scans, runs, started, response, rows, sessions,
                   batch, scheduler>>

BollingerNext == ApplyBollinger

SpecBollinger == BollingerInit /\ [][BollingerNext]_vars

\* -------------------------------------------------------- claims (bands)
\* C36: the half-width of the Bollinger bands at bar i is 2 times the
\* population standard deviation (divisor 20) of the 20 closes ending at
\* bar i, around their mean: its square is 4 times the sum over the window
\* of (x - mean)^2 = (20 x - sum)^2 / 400, divided by 20.
HalfWidthIsTwicePopulationStd ==
    (calc.fn = "bollinger" /\ calc.pc = "done")
        => \A i \in DOMAIN calc.close :
              i >= 20 =>
                 LET window == SubSeq(calc.close, i - 19, i)
                     total == SumFrom(window, 1, 20, 0)
                     deviations ==
                         [k \in 1..20 |-> (20 * window[k] - total)
                                             * (20 * window[k] - total)]
                 IN  /\ calc.bands[i].bb_middle = << Frac(total, 20) >>
                     /\ calc.bands[i].half_width_squared
                           = << Frac(4 * SumFrom(deviations, 1, 20, 0),
                                     400 * 20) >>

\* ---------------------------------------------------------- claims (tokens)
\* C37: a run removes only the token it acquired itself: when a run returns
\* while a newer run of its market, started after a cancel-scan and not
\* cancelled itself, is in progress, the market's token stays in the
\* registry.
ReturnKeepsNewerRunsToken ==
    [][\A r \in 1..MaxRuns :
          Returning(r)
              => \A newer \in DOMAIN runs' :
                    (/\ runs'[newer].market = runs[r].market
                     /\ runs'[newer].cancelledIn = "none")
                        => runs[r].market \in running_scans']_vars

\* ------------------------------------------------- claims (squeeze minimum)
\* C38: whatever min_squeeze_days the caller passes, values below 5
\* included, no symbol is reported with fewer than 5 squeeze days: a symbol
\* comes out of the analysis only with squeeze days of at least
\* max(5, min_squeeze_days), and a stacked symbol with that many does.
NeverReportedBelowFiveDays ==
    (calc.fn = "analysis" /\ calc.pc = "done")
        => LET days == squeeze_days(AnalysedDf)
               threshold == IF calc.min_squeeze_days > 5
                            THEN calc.min_squeeze_days ELSE 5
               stacked == (~ calc.ema_result.none) /\ calc.ema_result.stacked
           IN  /\ (~ calc.analysed.none)
                    <=> (stacked /\ days >= threshold)
               /\ (~ calc.analysed.none)
                    => /\ calc.analysed.squeeze_days = days
                       /\ calc.analysed.squeeze_days >= 5
               /\ calc.final => ~ calc.analysed.none

\* C38 witness: with min_squeeze_days 1 a stacked symbol four days in
\* squeeze is not reported.
FourDaysUnderMinimumOneUnreported ==
    /\ calc.fn = "analysis"
    /\ calc.pc = "done"
    /\ calc.min_squeeze_days = 1
    /\ squeeze_days(AnalysedDf) = 4
    /\ ~ calc.ema_result.none
    /\ calc.ema_result.stacked
    /\ calc.analysed.none
    /\ ~ calc.final

EmptyUniverseKeepsSnapshot ==
    [][\A r \in 1..MaxRuns :
          (Returning(r) /\ response'.path = "no_stocks")
              => /\ response'.status = 500
                 /\ response'.market = runs[r].market
                 /\ runs[r].market \notin running_scans'
                 /\ rows' = rows
                 /\ sessions' = sessions]_vars

\* C40 witness: a run of US ended on an empty universe after a completed
\* run of US had stored rows, which are still there with their session.
EmptyUniverseAfterStoredSnapshot ==
    /\ response.path = "no_stocks"
    /\ response.market = "US"
    /\ "US" \notin running_scans
    /\ Len(sessions) = 1
    /\ sessions[1].country = "US"
    /\ sessions[1].status = "completed"
    /\ sessions[1].results_count > 0
    /\ \E k \in RowKeys : k[1] = "US" /\ rows[k] > 0
====
